---- MODULE Spec2Model ----
(***************************************************************************)
(* Model of the Emby media importer's playback reporting:                  *)
(*   emby/player.py  - Player, the observer of the host's playback events  *)
(*   emby/server.py  - Server, the authenticated request layer             *)
(*                                                                         *)
(* Python values are modelled as follows.  None is the string "None" for   *)
(* string-valued fields, the item NoItem for the matched item, and 0 for   *)
(* the session id and the last-report timestamp (time.time() and the       *)
(* counter standing for uuid4() are always positive).  The return value    *)
(* False of the Api* operations is the string "False".                     *)
(***************************************************************************)
EXTENDS Integers, Sequences, FiniteSets, TLC

VARIABLES
    \* ---- Player fields (player.py:27-37)
    progressInterval, lastProgressReport, providers,
    file, item, itemId, mediaProvider, playSessionId, paused,
    \* ---- environment of the Player
    now,            \* time.time()
    uuidCounter,    \* number of uuid4() values drawn so far
    \* ---- what the last host callback did
    lastEvent,      \* name of the callback
    args,           \* the inputs it was given or read from the host
    prevReport,     \* lastProgressReport when it was entered
    matchLog,       \* the providers its match loop fetched, the warning logged
    remote,         \* the Server.ApiPost calls it made, in order
    raised,         \* the exception it raised, "" when none
    \* ---- history of the remote calls
    sessionIds,     \* the session ids of the "playing" reports issued, in order
    serverSessions, \* what the providers' servers were told: the sessions
                    \* announced by a "playing" POST and not yet "stopped"
                    \* (kept in SessionSpec only)
    \* ---- a Server object used directly (server.py)
    server,         \* the Server
    srvLast,        \* the last operation invoked on it and its outcome
    urlLast,        \* the last URL builder invoked on it and its outcome
    infoLast        \* the last Server.GetServerInfo: response, outcome

playerVars == <<progressInterval, lastProgressReport, providers,
                file, item, itemId, mediaProvider, playSessionId, paused>>
envVars    == <<now, uuidCounter>>
obsVars    == <<lastEvent, args, prevReport, matchLog, remote, raised,
               sessionIds, serverSessions>>
serverVars == <<server, srvLast, urlLast, infoLast>>
vars       == <<playerVars, envVars, obsVars, serverVars>>

----------------------------------------------------------------------------
\* Bounds of the model

MaxTime == 4
MaxSessions == 2
ConfiguredInterval == 2

----------------------------------------------------------------------------
\* Python values

None == "None"
False == "False"
NoSession == 0
NoReport == 0
NoItem == [n |-> 0, tagged |-> FALSE, uid |-> ""]

\* truth value of a string-valued Python expression
Truthy(x) == x # None /\ x # ""

\* truth value of a list item object or None
ItemTruthy(it) == it # NoItem

\* truth value of a number or None
NumTruthy(x) == x # 0

----------------------------------------------------------------------------
\* Collaborators of Server: the media provider, the Authenticator, Request

Providers == {"p1", "p2"}

\* Provider objects as the host can hand them to the registry: the two above,
\* one more, and one whose getIdentifier() is empty
EmptyIdProvider == "p0"
ProviderObjects == Providers \cup {"p3", EmptyIdProvider}

\* MediaProvider.getIdentifier()
Identifier(mp) == IF mp = EmptyIdProvider THEN "" ELSE mp

\* MediaProvider.getBasePath()
BasePath(p) == "http://" \o p

\* settings.getString(SETTING_PROVIDER_DEVICEID) of the provider's settings
DeviceIdSetting(p) == "dev-" \o p

\* What one Authenticator.Authenticate() attempt can yield: the credentials
\* of the authenticated user, or NoAuth when the attempt fails.
NoAuth == [token |-> None, userId |-> None]
Credentials == {[token |-> "t1", userId |-> "u1"]}
AuthOutcomes == {NoAuth} \cup Credentials

\* A newly constructed Authenticator holds no access token.
NewAuthenticator == [authenticated |-> FALSE, token |-> None, userId |-> None]

IsAuthenticated(a) == a.authenticated

\* Authenticator.Authenticate(): one attempt with the given outcome
AuthenticatorAuthenticate(a, outcome) ==
    IF outcome = NoAuth
    THEN [ret |-> FALSE, authenticator |-> NewAuthenticator]
    ELSE [ret |-> TRUE,
          authenticator |-> [authenticated |-> TRUE, token |-> outcome.token,
                             userId |-> outcome.userId]]

\* Request.PrepareApiCallHeaders(authToken, userId, deviceId)
PrepareApiCallHeaders(authToken, userId, deviceId) ==
    [authToken |-> authToken, userId |-> userId, deviceId |-> deviceId]

\* What Request.GetAsJson / PostAsJson / Delete can return
Failure == "failure"
TransportResults == {"json", Failure}

\* Url.append(url, segment, ...): URLs are sequences of path segments
UrlAppend(url, segments) == url \o segments

EMBY_PROTOCOL == "emby"
URL_SESSIONS == "Sessions"
URL_SESSIONS_PLAYING == "Playing"
URL_SESSIONS_PLAYING_PROGRESS == "Progress"
URL_SESSIONS_PLAYING_STOPPED == "Stopped"

----------------------------------------------------------------------------
\* Server (server.py)

\* Server.__init__(provider), for a provider that has settings
NewServer(p) ==
    [id |-> Identifier(p),
     baseUrl |-> BasePath(p),
     url |-> UrlAppend(<<BasePath(p)>>, <<EMBY_PROTOCOL>>),
     devideId |-> DeviceIdSetting(p),
     authenticator |-> NewAuthenticator]

AccessToken(srv) == srv.authenticator.token
UserId(srv) == srv.authenticator.userId

\* Server.Authenticate(): IsAuthenticated() or Authenticate().  The result
\* says whether a fresh attempt was made and what the authenticator became.
ServerAuthenticateEager(srv, outcome) ==
    LET r == AuthenticatorAuthenticate(srv.authenticator, outcome)
    IN  [ret |-> IsAuthenticated(srv.authenticator) \/ r.ret,
         attempted |-> TRUE,
         authenticator |-> r.authenticator]

ServerAuthenticate(srv, outcome) ==
    IF IsAuthenticated(srv.authenticator)
    THEN [ret |-> TRUE, attempted |-> FALSE, authenticator |-> srv.authenticator]
    ELSE LET r == AuthenticatorAuthenticate(srv.authenticator, outcome)
         IN  [ret |-> r.ret, attempted |-> TRUE, authenticator |-> r.authenticator]

\* Server._authenticate(): Authenticate(), logging a failure
ServerAuthenticateChecked(srv, outcome) ==
    LET r == ServerAuthenticate(srv, outcome)
    IN  [ret |-> r.ret, attempted |-> r.attempted,
         authenticator |-> r.authenticator, logged |-> ~r.ret]

\* The headers of an authenticated call, built after authentication
ApiHeaders(srv, authenticator) ==
    PrepareApiCallHeaders(authenticator.token, authenticator.userId, srv.devideId)

\* Server.ApiGet(url) with Server._get(url)
ApiGet(srv, url, outcome, resp) ==
    LET a == ServerAuthenticateChecked(srv, outcome)
    IN  IF ~a.ret
        THEN [ret |-> False, transport |-> <<>>, auth |-> a]
        ELSE [ret |-> resp,
              transport |-> <<[method |-> "GET", url |-> url,
                               headers |-> ApiHeaders(srv, a.authenticator)]>>,
              auth |-> a]

\* Server.ApiPost(url, data)
ApiPostUnchecked(srv, url, data, outcome, resp) ==
    LET a == ServerAuthenticateChecked(srv, outcome)
    IN  [ret |-> resp,
         transport |-> <<[method |-> "POST", url |-> url,
                          headers |-> ApiHeaders(srv, a.authenticator),
                          body |-> data]>>,
         auth |-> a]

ApiPost(srv, url, data, outcome, resp) ==
    LET a == ServerAuthenticateChecked(srv, outcome)
    IN  IF ~a.ret
        THEN [ret |-> False, transport |-> <<>>, auth |-> a]
        ELSE [ret |-> resp,
              transport |-> <<[method |-> "POST", url |-> url,
                               headers |-> ApiHeaders(srv, a.authenticator),
                               body |-> data]>>,
              auth |-> a]

\* Server.ApiDelete(url)
ApiDeleteUnchecked(srv, url, outcome, resp) ==
    LET a == ServerAuthenticateChecked(srv, outcome)
    IN  [ret |-> resp,
         transport |-> <<[method |-> "DELETE", url |-> url,
                          headers |-> ApiHeaders(srv, a.authenticator)]>>,
         auth |-> a]

ApiDelete(srv, url, outcome, resp) ==
    LET a == ServerAuthenticateChecked(srv, outcome)
    IN  IF ~a.ret
        THEN [ret |-> False, transport |-> <<>>, auth |-> a]
        ELSE [ret |-> resp,
              transport |-> <<[method |-> "DELETE", url |-> url,
                               headers |-> ApiHeaders(srv, a.authenticator)]>>,
              auth |-> a]

\* Server.BuildSessionsPlayingUrl / ...ProgressUrl / ...StoppedUrl
BuildSessionsPlayingUrl(srv) ==
    UrlAppend(srv.url, <<URL_SESSIONS, URL_SESSIONS_PLAYING>>)
BuildSessionsPlayingProgressUrl(srv) ==
    UrlAppend(BuildSessionsPlayingUrl(srv), <<URL_SESSIONS_PLAYING_PROGRESS>>)
BuildSessionsPlayingStoppedUrl(srv) ==
    UrlAppend(BuildSessionsPlayingUrl(srv), <<URL_SESSIONS_PLAYING_STOPPED>>)

----------------------------------------------------------------------------
\* URL builders (server.py:117-199).  A builder yields the URL or raises.

URL_USERS == "Users"
URL_ITEMS == "Items"
URL_PLAYING_ITEMS == "PlayingItems"
URL_PLAYED_ITEMS == "PlayedItems"
URL_USER_DATA == "UserData"

UrlOk(url) == [raised |-> "", url |-> url]
UrlRaise(exc) == [raised |-> exc, url |-> << >>]

\* Url.addOptions(url, options): the query string goes after the last segment
UrlAddOptions(url, options) == [url EXCEPT ![Len(url)] = @ \o "?" \o options]

\* '{}.{}'.format(url, extension)
UrlWithExtension(url, extension) == [url EXCEPT ![Len(url)] = @ \o "." \o extension]

\* A string given as the sequence of its characters, as one string
RECURSIVE Str(_)
Str(chars) == IF chars = << >> THEN "" ELSE Head(chars) \o Str(Tail(chars))

\* chars.split(sep)
RECURSIVE Split(_, _)
Split(chars, sep) ==
    IF \A i \in 1..Len(chars) : chars[i] # sep
    THEN <<chars>>
    ELSE LET i == CHOOSE k \in 1..Len(chars) :
                      chars[k] = sep /\ \A j \in 1..(k - 1) : chars[j] # sep
         IN  <<SubSeq(chars, 1, i - 1)>> \o Split(SubSeq(chars, i + 1, Len(chars)), sep)

\* Server._assertAuthentication(): the exception it raises, if any
AssertAuthentication(srv) ==
    IF ~IsAuthenticated(srv.authenticator) THEN "RuntimeError" ELSE ""

\* Server.BuildUrl(endpoint)
BuildUrl(srv, endpoint) ==
    IF ~Truthy(endpoint)
    THEN UrlRaise("ValueError")
    ELSE UrlOk(UrlAppend(srv.url, <<endpoint>>))

BuildUserUrlAuthFirst(srv, endpoint) ==
    IF AssertAuthentication(srv) # ""
    THEN UrlRaise(AssertAuthentication(srv))
    ELSE IF ~Truthy(endpoint)
    THEN UrlRaise("ValueError")
    ELSE UrlOk(UrlAppend(UrlAppend(srv.url, <<URL_USERS, UserId(srv)>>), <<endpoint>>))

\* Server.BuildUserUrl(endpoint)
BuildUserUrl(srv, endpoint) ==
    IF ~Truthy(endpoint)
    THEN UrlRaise("ValueError")
    ELSE IF AssertAuthentication(srv) # ""
    THEN UrlRaise(AssertAuthentication(srv))
    ELSE IF ~Truthy(UserId(srv))
    THEN UrlRaise("RuntimeError")
    ELSE UrlOk(UrlAppend(UrlAppend(srv.url, <<URL_USERS, UserId(srv)>>), <<endpoint>>))

\* url = self.BuildUserUrl(endpoint); return Url.append(url, segments...)
UserUrlWith(srv, id, endpoint, segments) ==
    IF ~Truthy(id)
    THEN UrlRaise("ValueError")
    ELSE LET r == BuildUserUrl(srv, endpoint)
         IN  IF r.raised # "" THEN r ELSE UrlOk(UrlAppend(r.url, segments))

\* Server.BuildUserItemUrl(itemId)
BuildUserItemUrl(srv, id) == UserUrlWith(srv, id, URL_ITEMS, <<id>>)

\* Server.BuildUserPlayingItemUrl(itemId)
BuildUserPlayingItemUrl(srv, id) ==
    UserUrlWith(srv, id, URL_PLAYING_ITEMS, <<id>>)

\* Server.BuildUserPlayedItemUrl(itemId)
BuildUserPlayedItemUrl(srv, id) ==
    UserUrlWith(srv, id, URL_PLAYED_ITEMS, <<id>>)

\* Server.BuildUserItemUserDataUrl(itemId)
BuildUserItemUserDataUrl(srv, id) ==
    UserUrlWith(srv, id, URL_ITEMS, <<id, URL_USER_DATA>>)

\* Server.BuildFolderItemUrl(itemId)
BuildFolderItemUrl(srv, id) == BuildUserItemUrl(srv, id)

BuildPlayableItemUrlLastContainer(srv, mediaType, id, container) ==
    IF ~Truthy(id)
    THEN UrlRaise("ValueError")
    ELSE IF mediaType \notin {"Video", "Audio"}
    THEN UrlRaise("ValueError")
    ELSE LET embyMediaType == IF mediaType = "Video" THEN "Videos" ELSE "Audio"
             url == UrlAppend(BuildUrl(srv, embyMediaType).url, <<id, "stream">>)
             containers == Split(container, ",")
             withContainer == IF container # << >>
                              THEN UrlWithExtension(url, Str(containers[Len(containers)]))
                              ELSE url
         IN  UrlOk(UrlAddOptions(withContainer, "static=true"))

\* Server.BuildPlayableItemUrl(mediaType, itemId, container), the container
\* string given as the sequence of its characters
BuildPlayableItemUrl(srv, mediaType, id, container) ==
    IF ~Truthy(id)
    THEN UrlRaise("ValueError")
    ELSE IF mediaType \notin {"Video", "Audio"}
    THEN UrlRaise("ValueError")
    ELSE LET embyMediaType == IF mediaType = "Video" THEN "Videos" ELSE "Audio"
             url == UrlAppend(BuildUrl(srv, embyMediaType).url, <<id, "stream">>)
             containers == Split(container, ",")
             withContainer == IF container # << >>
                              THEN UrlWithExtension(url, Str(containers[1]))
                              ELSE url
         IN  UrlOk(UrlAddOptions(withContainer, "static=true"))

----------------------------------------------------------------------------
\* Server.Info (server.py:19-58)

\* A "public info" response is a dict; a key that is missing is Absent.  A
\* version string is the sequence of its dot-separated components, -1 for a
\* component that is no number; the key is missing when the sequence is empty.
Absent == "absent"
AbsentVersion == << >>
NotANumber == -1
InfoIds == {Absent, "", "srv1"}
InfoNames == {Absent, "Home"}
InfoVersions == {AbsentVersion, <<4, 7, 2, 1>>, <<4, 7, 2>>, <<4, 7>>, <<NotANumber>>}
InfoProducts == {Absent, "", "Emby Server", "Jellyfin Server", "Other Server"}
Responses == [Id : InfoIds, ServerName : InfoNames,
              Version : InfoVersions, ProductName : InfoProducts]

EMBY_SERVER == "Emby Server"
JELLYFIN_SERVER == "Jellyfin Server"

NoInfo == [id |-> None, name |-> None, version |-> << >>, product |-> None]

\* versions[0:3]
FirstThree(parts) == SubSeq(parts, 1, IF Len(parts) < 3 THEN Len(parts) ELSE 3)

\* semantic_version.Version(string) accepts MAJOR.MINOR.PATCH
SemanticVersionValid(parts) ==
    Len(parts) = 3 /\ \A i \in 1..Len(parts) : parts[i] >= 0

\* Server.Info.__init__(id, name, version, product)
InfoInit(id, name, version, product) ==
    IF ~Truthy(id)
    THEN [raised |-> "ValueError", info |-> NoInfo]
    ELSE [raised |-> "",
          info |-> [id |-> id, name |-> name, version |-> version,
                    product |-> IF Truthy(product) THEN product ELSE EMBY_SERVER]]

isEmbyServer(info) == info.product = EMBY_SERVER
isJellyfinServer(info) == info.product = JELLYFIN_SERVER
isUnknown(info) == ~isEmbyServer(info) /\ ~isJellyfinServer(info)

\* Server.Info.fromPublicInfo(response); an empty or missing response is the
\* dict with every key Absent
fromPublicInfo(response) ==
    IF \/ response.Id = Absent
       \/ response.ServerName = Absent
       \/ response.Version = AbsentVersion
    THEN [raised |-> "", info |-> NoInfo]
    ELSE LET versions == FirstThree(response.Version)
             productName == IF response.ProductName # Absent
                            THEN response.ProductName ELSE None
         IN  IF ~SemanticVersionValid(versions)
             THEN [raised |-> "ValueError", info |-> NoInfo]
             ELSE InfoInit(response.Id, response.ServerName, versions, productName)

\* Whether a value returned by an Api* operation says the call failed
ApiFailed(ret) == ret = False \/ ret = Failure

----------------------------------------------------------------------------
\* Collaborators of Player: the host's playback surface, the import registry

\* xbmc.Player.getPlayingFile()
Files == {"f1"}

\* getVideoInfoTag() of the playing item: None when there is no tag, else
\* the tag's getUniqueID(EMBY_PROTOCOL), "" when it has none
Tags == {None, "", "a", "b", "c"}

\* xbmcmediaimport.getImportedItemsByProvider(mediaProvider): each item has
\* an identity n, may lack a video info tag, and has a unique id
ImportedItems(p) ==
    IF p = "p1"
    THEN << [n |-> 1, tagged |-> FALSE, uid |-> "a"],
            [n |-> 2, tagged |-> TRUE, uid |-> "a"],
            [n |-> 3, tagged |-> TRUE, uid |-> "a"] >>
    ELSE IF p = "p2"
    THEN << [n |-> 4, tagged |-> TRUE, uid |-> "a"],
            [n |-> 5, tagged |-> TRUE, uid |-> "b"] >>
    ELSE << >>

PLAYING_PROGRESS_EVENT_TIME_UPDATE == "TimeUpdate"
PLAYING_PROGRESS_EVENT_PAUSE == "Pause"
PLAYING_PROGRESS_EVENT_UNPAUSE == "Unpause"
PLAYING_PLAY_METHOD_DIRECT_STREAM == "DirectStream"

----------------------------------------------------------------------------
\* Player (player.py)

DefaultProgressInterval == 10

\* progressInterval or 10
IntervalOrDefault(configured) ==
    IF NumTruthy(configured) THEN configured ELSE DefaultProgressInterval

\* Player._preparePlayingData(stopped, event, failed) with the fields it reads.
\* The best-effort PositionTicks / RunTimeTicks are left out.
PreparePlayingDataNoEvent(iid, sid, isPaused, stopped, event, failed) ==
    IF stopped
    THEN [ItemId |-> iid, PlaySessionId |-> sid,
          PlaylistIndex |-> 0, PlaylistLength |-> 1,
          Failed |-> failed]
    ELSE [ItemId |-> iid, PlaySessionId |-> sid,
          PlaylistIndex |-> 0, PlaylistLength |-> 1,
          QueueableMediaTypes |-> "Audio,Video", CanSeek |-> TRUE,
          PlayMethod |-> PLAYING_PLAY_METHOD_DIRECT_STREAM,
          IsPaused |-> isPaused]

PreparePlayingData(iid, sid, isPaused, stopped, event, failed) ==
    IF stopped
    THEN [ItemId |-> iid, PlaySessionId |-> sid,
          PlaylistIndex |-> 0, PlaylistLength |-> 1,
          Failed |-> failed]
    ELSE IF Truthy(event)
    THEN [ItemId |-> iid, PlaySessionId |-> sid,
          PlaylistIndex |-> 0, PlaylistLength |-> 1,
          QueueableMediaTypes |-> "Audio,Video", CanSeek |-> TRUE,
          PlayMethod |-> PLAYING_PLAY_METHOD_DIRECT_STREAM,
          IsPaused |-> isPaused, EventName |-> event]
    ELSE [ItemId |-> iid, PlaySessionId |-> sid,
          PlaylistIndex |-> 0, PlaylistLength |-> 1,
          QueueableMediaTypes |-> "Audio,Video", CanSeek |-> TRUE,
          PlayMethod |-> PLAYING_PLAY_METHOD_DIRECT_STREAM,
          IsPaused |-> isPaused]

\* One remote call of the Player: Server(mediaProvider), a URL, ApiPost.
\* kind is "playing", "progress" or "stopped".
RemoteCall(p, kind, data, outcome, resp) ==
    LET srv == NewServer(p)
        url == IF kind = "playing" THEN BuildSessionsPlayingUrl(srv)
               ELSE IF kind = "progress" THEN BuildSessionsPlayingProgressUrl(srv)
               ELSE BuildSessionsPlayingStoppedUrl(srv)
        r == ApiPost(srv, url, data, outcome, resp)
    IN  [provider |-> p, kind |-> kind, url |-> url, data |-> data,
         authenticated |-> r.auth.ret, ret |-> r.ret, transport |-> r.transport]

\* player.py:116-117, the imported items of one provider that match the id
MatchingItems(p, id) ==
    SelectSeq(ImportedItems(p), LAMBDA it : it.tagged /\ it.uid = id)

\* player.py:114-127, the loop over self._providers.values(): the first
\* provider with a matching item, NoMatch when the loop ends without one
NoMatch == [found |-> FALSE, item |-> NoItem, mediaProvider |-> None,
            warned |-> FALSE, consulted |-> << >>]

\* the same loop without the break of player.py:127: the last match wins
RECURSIVE LastMatch(_, _)
LastMatch(provs, id) ==
    IF provs = << >> THEN NoMatch
    ELSE LET matchingItems == MatchingItems(Head(provs), id)
             rest == LastMatch(Tail(provs), id)
         IN  IF rest.found \/ matchingItems = << >>
             THEN [rest EXCEPT !.consulted = <<Head(provs)>> \o rest.consulted]
             ELSE [found |-> TRUE, item |-> matchingItems[1],
                   mediaProvider |-> Head(provs),
                   warned |-> Len(matchingItems) > 1,
                   consulted |-> <<Head(provs)>> \o rest.consulted]

RECURSIVE FirstMatch(_, _)
FirstMatch(provs, id) ==
    IF provs = << >> THEN NoMatch
    ELSE LET matchingItems == MatchingItems(Head(provs), id)
         IN  IF matchingItems = << >>
             THEN LET rest == FirstMatch(Tail(provs), id)
                  IN  [rest EXCEPT !.consulted = <<Head(provs)>> \o rest.consulted]
             ELSE [found |-> TRUE, item |-> matchingItems[1],
                   mediaProvider |-> Head(provs),
                   warned |-> Len(matchingItems) > 1,
                   consulted |-> <<Head(provs)>>]

\* player.py:146 and player.py:160, "if not self._item: return"
HasMatchedItemAlways(it) == TRUE

HasMatchedItem(it) == ItemTruthy(it)

\* player.py:56, the negation of the throttle's early return
ProgressDueStrict(last, t, interval) == (t - last) > interval

ProgressDue(last, t, interval) == ~((t - last) < interval)

\* What a callback records about itself
NoArgs == [isVideo |-> FALSE, tag |-> None, mp |-> None]

NoMatchLog == [consulted |-> << >>, warned |-> FALSE]

\* The session a payload names at a provider's server
SessionOf(call) ==
    [provider |-> call.provider, ItemId |-> call.data.ItemId,
     PlaySessionId |-> call.data.PlaySessionId]

\* The server side of one POST that was sent: "playing" opens the session
\* it names, "stopped" closes the provider's sessions of that session id
Deliver(ss, call) ==
    IF ~ss.recording \/ ~call.authenticated THEN ss
    ELSE IF call.kind = "playing"
    THEN [ss EXCEPT !.open = @ \cup {SessionOf(call)}]
    ELSE IF call.kind = "stopped"
    THEN [ss EXCEPT !.open = {e \in @ :
              ~(/\ e.provider = call.provider
                /\ e.PlaySessionId = call.data.PlaySessionId)}]
    ELSE ss

RECURSIVE DeliverAll(_, _)
DeliverAll(ss, calls) ==
    IF calls = << >> THEN ss
    ELSE DeliverAll(Deliver(ss, Head(calls)), Tail(calls))

ObserveMatch(event, a, ml, calls, exc) ==
    /\ sessionIds' = sessionIds \o
          [i \in 1..Len(SelectSeq(calls, LAMBDA c : c.kind = "playing")) |->
              SelectSeq(calls, LAMBDA c : c.kind = "playing")[i].data.PlaySessionId]
    /\ serverSessions' = DeliverAll(serverSessions, calls)
    /\ lastEvent' = event
    /\ args' = a
    /\ prevReport' = lastProgressReport
    /\ matchLog' = ml
    /\ remote' = calls
    /\ raised' = exc

ObserveArgs(event, a, calls, exc) == ObserveMatch(event, a, NoMatchLog, calls, exc)

Observe(event, calls, exc) == ObserveArgs(event, NoArgs, calls, exc)

\* Player._reset()
Reset ==
    /\ file' = None
    /\ item' = NoItem
    /\ itemId' = None
    /\ mediaProvider' = None
    /\ playSessionId' = NoSession
    /\ paused' = FALSE

\* Player._reportPlaybackProgress(event), with the paused flag it reads
ReportPlaybackProgress(name, event, isPaused) ==
    IF ~HasMatchedItem(item)
    THEN /\ Observe(name, << >>, "")
         /\ UNCHANGED lastProgressReport
    ELSE /\ \E outcome \in AuthOutcomes, resp \in TransportResults :
              Observe(name,
                    << RemoteCall(mediaProvider, "progress",
                           PreparePlayingData(itemId, playSessionId, isPaused,
                                              FALSE, event, FALSE),
                           outcome, resp) >>, "")
         /\ lastProgressReport' = now

\* Player._stopPlayback(failed)
StopPlayback(name, failed) ==
    IF ~HasMatchedItem(item)
    THEN /\ Observe(name, << >>, "")
         /\ UNCHANGED <<file, item, itemId, mediaProvider, playSessionId, paused>>
    ELSE /\ \E outcome \in AuthOutcomes, resp \in TransportResults :
              Observe(name,
                    << RemoteCall(mediaProvider, "stopped",
                           PreparePlayingData(itemId, playSessionId, paused,
                                              TRUE, None, failed),
                           outcome, resp) >>, "")
         /\ Reset

KeepPlaySessionId(current, generated) ==
    IF current # NoSession THEN current ELSE generated

\* self._playSessionId = str(uuid.uuid4())
NewPlaySessionId(current, generated) == generated

\* Player._startPlayback()
StartPlayback(name, isVideo, tag) ==
    IF ~Truthy(file) \/ ~isVideo \/ tag = None
    THEN /\ ObserveArgs(name, [NoArgs EXCEPT !.isVideo = isVideo, !.tag = tag], << >>, "")
         /\ UNCHANGED <<item, itemId, mediaProvider, playSessionId,
                        lastProgressReport, uuidCounter>>
    ELSE IF ~Truthy(tag)
    THEN /\ ObserveArgs(name, [NoArgs EXCEPT !.isVideo = isVideo, !.tag = tag], << >>, "")
         /\ itemId' = tag
         /\ UNCHANGED <<item, mediaProvider, playSessionId,
                        lastProgressReport, uuidCounter>>
    ELSE LET m == FirstMatch(providers, tag)
             newItem == IF m.found THEN m.item ELSE item
             newProvider == IF m.found THEN m.mediaProvider ELSE mediaProvider
         IN  IF ~ItemTruthy(newItem)
             THEN /\ ObserveMatch(name, [NoArgs EXCEPT !.isVideo = isVideo, !.tag = tag],
                         [consulted |-> m.consulted, warned |-> m.warned], << >>, "")
                  /\ itemId' = tag
                  /\ UNCHANGED <<item, mediaProvider, playSessionId,
                                 lastProgressReport, uuidCounter>>
             ELSE /\ itemId' = tag
                  /\ item' = newItem
                  /\ mediaProvider' = newProvider
                  /\ uuidCounter' = uuidCounter + 1
                  /\ playSessionId' = NewPlaySessionId(playSessionId, uuidCounter + 1)
                  /\ \E outcome \in AuthOutcomes, resp \in TransportResults :
                       ObserveMatch(name, [NoArgs EXCEPT !.isVideo = isVideo, !.tag = tag],
                         [consulted |-> m.consulted, warned |-> m.warned],
                         << RemoteCall(newProvider, "playing",
                                PreparePlayingData(tag,
                                    NewPlaySessionId(playSessionId, uuidCounter + 1), paused,
                                                   FALSE, None, FALSE),
                                outcome, resp) >>, "")
                  /\ lastProgressReport' = now

----------------------------------------------------------------------------
\* The Player's operations and the host's callbacks

\* self._providers[key] = mediaProvider: a dict keeps a key's first position
DictSet(registry, key, mp) ==
    IF \E i \in 1..Len(registry) : Identifier(registry[i]) = key
    THEN [i \in 1..Len(registry) |->
             IF Identifier(registry[i]) = key THEN mp ELSE registry[i]]
    ELSE Append(registry, mp)

\* key in self._providers
DictHas(registry, key) ==
    \E i \in 1..Len(registry) : Identifier(registry[i]) = key

\* del self._providers[key], for a key that is present
DictDel(registry, key) ==
    SelectSeq(registry, LAMBDA q : Identifier(q) # key)

\* Player.AddProvider(mediaProvider); the provider object is None or an object
AddProvider(mp) ==
    /\ IF mp = None
       THEN /\ ObserveArgs("AddProvider", [NoArgs EXCEPT !.mp = mp], << >>, "ValueError")
            /\ UNCHANGED providers
       ELSE /\ ObserveArgs("AddProvider", [NoArgs EXCEPT !.mp = mp], << >>, "")
            /\ providers' = DictSet(providers, Identifier(mp), mp)
    /\ UNCHANGED <<progressInterval, lastProgressReport, file, item, itemId,
                   mediaProvider, playSessionId, paused>>
    /\ UNCHANGED <<envVars, serverVars>>

\* Player.RemoveProvider(mediaProvider)
RemoveProvider(mp) ==
    /\ IF mp = None
       THEN /\ ObserveArgs("RemoveProvider", [NoArgs EXCEPT !.mp = mp], << >>, "ValueError")
            /\ UNCHANGED providers
       ELSE IF ~DictHas(providers, Identifier(mp))
       THEN /\ ObserveArgs("RemoveProvider", [NoArgs EXCEPT !.mp = mp], << >>, "KeyError")
            /\ UNCHANGED providers
       ELSE /\ ObserveArgs("RemoveProvider", [NoArgs EXCEPT !.mp = mp], << >>, "")
            /\ providers' = DictDel(providers, Identifier(mp))
    /\ UNCHANGED <<progressInterval, lastProgressReport, file, item, itemId,
                   mediaProvider, playSessionId, paused>>
    /\ UNCHANGED <<envVars, serverVars>>

\* Player.Process()
Process ==
    /\ IF ~NumTruthy(lastProgressReport)
       THEN /\ Observe("Process", << >>, "")
            /\ UNCHANGED lastProgressReport
       ELSE IF ~ProgressDue(lastProgressReport, now, progressInterval)
       THEN /\ Observe("Process", << >>, "")
            /\ UNCHANGED lastProgressReport
       ELSE ReportPlaybackProgress("Process", PLAYING_PROGRESS_EVENT_TIME_UPDATE,
                                   paused)
    /\ UNCHANGED <<progressInterval, providers, file, item, itemId,
                   mediaProvider, playSessionId, paused>>
    /\ UNCHANGED <<envVars, serverVars>>

\* Player.onPlayBackStarted(), f the file the host is playing
onPlayBackStarted(f) ==
    /\ item' = NoItem
    /\ itemId' = None
    /\ mediaProvider' = None
    /\ playSessionId' = NoSession
    /\ paused' = FALSE
    /\ file' = f
    /\ Observe("onPlayBackStarted", << >>, "")
    /\ UNCHANGED <<progressInterval, lastProgressReport, providers>>
    /\ UNCHANGED <<envVars, serverVars>>

\* Player.onAVStarted()
onAVStarted(isVideo, tag) ==
    /\ uuidCounter < MaxSessions
    /\ StartPlayback("onAVStarted", isVideo, tag)
    /\ UNCHANGED <<progressInterval, providers, file, paused, now, serverVars>>

\* Player.onPlayBackSeek(time, seekOffset)
onPlayBackSeek ==
    /\ ReportPlaybackProgress("onPlayBackSeek", PLAYING_PROGRESS_EVENT_TIME_UPDATE,
                              paused)
    /\ UNCHANGED <<progressInterval, providers, file, item, itemId,
                   mediaProvider, playSessionId, paused>>
    /\ UNCHANGED <<envVars, serverVars>>

\* Player.onPlayBackSeekChapter(chapter)
onPlayBackSeekChapter ==
    /\ ReportPlaybackProgress("onPlayBackSeekChapter",
                              PLAYING_PROGRESS_EVENT_TIME_UPDATE,
                              paused)
    /\ UNCHANGED <<progressInterval, providers, file, item, itemId,
                   mediaProvider, playSessionId, paused>>
    /\ UNCHANGED <<envVars, serverVars>>

\* Player.onPlayBackPaused()
onPlayBackPaused ==
    /\ paused' = TRUE
    /\ ReportPlaybackProgress("onPlayBackPaused", PLAYING_PROGRESS_EVENT_PAUSE,
                              TRUE)
    /\ UNCHANGED <<progressInterval, providers, file, item, itemId,
                   mediaProvider, playSessionId>>
    /\ UNCHANGED <<envVars, serverVars>>

\* Player.onPlayBackResumed()
onPlayBackResumed ==
    /\ paused' = FALSE
    /\ ReportPlaybackProgress("onPlayBackResumed", PLAYING_PROGRESS_EVENT_UNPAUSE,
                              FALSE)
    /\ UNCHANGED <<progressInterval, providers, file, item, itemId,
                   mediaProvider, playSessionId>>
    /\ UNCHANGED <<envVars, serverVars>>

\* Player.onPlayBackStopped()
onPlayBackStopped ==
    /\ StopPlayback("onPlayBackStopped", FALSE)
    /\ UNCHANGED <<progressInterval, lastProgressReport, providers>>
    /\ UNCHANGED <<envVars, serverVars>>

\* Player.onPlayBackEnded()
onPlayBackEnded ==
    /\ StopPlayback("onPlayBackEnded", FALSE)
    /\ UNCHANGED <<progressInterval, lastProgressReport, providers>>
    /\ UNCHANGED <<envVars, serverVars>>

\* Player.onPlayBackError()
onPlayBackError ==
    /\ StopPlayback("onPlayBackError", TRUE)
    /\ UNCHANGED <<progressInterval, lastProgressReport, providers>>
    /\ UNCHANGED <<envVars, serverVars>>

\* time.time() advances between callbacks
Tick ==
    /\ now < MaxTime
    /\ now' = now + 1
    /\ Observe("Tick", << >>, "")
    /\ UNCHANGED <<playerVars, uuidCounter, serverVars>>

----------------------------------------------------------------------------
\* Operations on a Server object

NoOp == [op |-> "none", url |-> << >>, ret |-> "", authRet |-> FALSE,
         transport |-> << >>, attempted |-> FALSE, wasAuthenticated |-> FALSE,
         outcome |-> NoAuth]

\* The URLs and bodies the operations are invoked with
ApiUrls(srv) == { BuildSessionsPlayingUrl(srv),
                  BuildSessionsPlayingProgressUrl(srv),
                  BuildSessionsPlayingStoppedUrl(srv) }
ApiBodies == { [ItemId |-> "a"], [ItemId |-> "b"] }

\* Server(provider)
SrvNew(p) ==
    /\ server' = NewServer(p)
    /\ srvLast' = [NoOp EXCEPT !.op = "Server"]
    /\ UNCHANGED <<urlLast, infoLast, playerVars, envVars, obsVars>>

\* What an Api* operation leaves behind
SrvApi(op, url, outcome, r) ==
    /\ server' = [server EXCEPT !.authenticator = r.auth.authenticator]
    /\ srvLast' = [op |-> op, url |-> url, ret |-> r.ret, authRet |-> r.auth.ret,
                   transport |-> r.transport, attempted |-> r.auth.attempted,
                   wasAuthenticated |-> IsAuthenticated(server.authenticator),
                   outcome |-> outcome]
    /\ UNCHANGED <<urlLast, infoLast, playerVars, envVars, obsVars>>

\* server.Authenticate()
SrvAuthenticate(outcome) ==
    LET r == ServerAuthenticate(server, outcome)
    IN  /\ server' = [server EXCEPT !.authenticator = r.authenticator]
        /\ srvLast' = [NoOp EXCEPT !.op = "Authenticate", !.authRet = r.ret,
                            !.attempted = r.attempted,
                            !.wasAuthenticated = IsAuthenticated(server.authenticator),
                            !.outcome = outcome]
        /\ UNCHANGED <<urlLast, infoLast, playerVars, envVars, obsVars>>

\* server.ApiGet(url)
SrvApiGet(url, outcome, resp) ==
    SrvApi("ApiGet", url, outcome, ApiGet(server, url, outcome, resp))

\* server.ApiPost(url, data)
SrvApiPost(url, data, outcome, resp) ==
    SrvApi("ApiPost", url, outcome, ApiPost(server, url, data, outcome, resp))

\* server.ApiDelete(url)
SrvApiDelete(url, outcome, resp) ==
    SrvApi("ApiDelete", url, outcome, ApiDelete(server, url, outcome, resp))

\* What the URL builders are invoked with
Endpoints == {"", URL_ITEMS}
ItemIds == {"", "abc123"}
MediaTypes == {"Video", "Audio", "Subtitle"}
Containers == { << >>, <<"m", "k", "v">>,
                <<"m", "k", "v", ",", "m", "p", "4">>,
                <<"t", "s", ",", "m", "k", "v">> }
UserItemBuilders == {"BuildUserItemUrl", "BuildUserPlayingItemUrl",
                     "BuildUserPlayedItemUrl", "BuildUserItemUserDataUrl",
                     "BuildFolderItemUrl"}

NoUrlOp == [op |-> "none", arg |-> "", mediaType |-> "", container |-> << >>,
            raised |-> "", url |-> << >>, wasAuthenticated |-> FALSE,
            server |-> NewServer("p1")]

\* What a URL builder leaves behind, the Server after the call included:
\* no builder assigns a field of the Server
SrvBuilt(op, arg, mediaType, container, r) ==
    /\ UNCHANGED <<server, srvLast, infoLast, playerVars, envVars, obsVars>>
    /\ urlLast' = [op |-> op, arg |-> arg, mediaType |-> mediaType,
                   container |-> container, raised |-> r.raised, url |-> r.url,
                   wasAuthenticated |-> IsAuthenticated(server.authenticator),
                   server |-> server']

\* server.BuildUserUrl(endpoint)
SrvBuildUserUrl(endpoint) ==
    SrvBuilt("BuildUserUrl", endpoint, "", << >>, BuildUserUrl(server, endpoint))

\* server.BuildUserItemUrl(itemId) and the other builders of one item's URL
SrvBuildUserItemUrl(op, id) ==
    SrvBuilt(op, id, "", << >>,
        CASE op = "BuildUserItemUrl" -> BuildUserItemUrl(server, id)
          [] op = "BuildUserPlayingItemUrl" -> BuildUserPlayingItemUrl(server, id)
          [] op = "BuildUserPlayedItemUrl" -> BuildUserPlayedItemUrl(server, id)
          [] op = "BuildUserItemUserDataUrl" -> BuildUserItemUserDataUrl(server, id)
          [] op = "BuildFolderItemUrl" -> BuildFolderItemUrl(server, id))

\* server.BuildPlayableItemUrl(mediaType, itemId, container)
SrvBuildPlayableItemUrl(mediaType, id, container) ==
    SrvBuilt("BuildPlayableItemUrl", id, mediaType, container,
             BuildPlayableItemUrl(server, mediaType, id, container))

\* Server.GetServerInfo(baseUrl), response what Request.GetAsJson returned
NoInfoOp == [done |-> FALSE, response |-> [Id |-> Absent, ServerName |-> Absent,
                 Version |-> AbsentVersion, ProductName |-> Absent],
             raised |-> "", info |-> NoInfo]

SrvGetServerInfo(response) ==
    LET r == fromPublicInfo(response)
    IN  /\ infoLast' = [done |-> TRUE, response |-> response,
                        raised |-> r.raised, info |-> r.info]
        /\ UNCHANGED <<server, srvLast, urlLast, playerVars, envVars, obsVars>>

----------------------------------------------------------------------------
\* Specifications

InitRecording(recording) ==
    /\ progressInterval = IntervalOrDefault(ConfiguredInterval)
    /\ lastProgressReport = NoReport
    /\ providers = << >>
    /\ file = None
    /\ item = NoItem
    /\ itemId = None
    /\ mediaProvider = None
    /\ playSessionId = NoSession
    /\ paused = FALSE
    /\ now = 1
    /\ uuidCounter = 0
    /\ lastEvent = "init"
    /\ args = NoArgs
    /\ prevReport = NoReport
    /\ matchLog = NoMatchLog
    /\ remote = << >>
    /\ raised = ""
    /\ sessionIds = << >>
    /\ serverSessions = [recording |-> recording, open |-> {}]
    /\ server = NewServer("p1")
    /\ srvLast = NoOp
    /\ urlLast = NoUrlOp
    /\ infoLast = NoInfoOp

Init == InitRecording(FALSE)

Next ==
    \/ \E mp \in Providers \cup {None} : AddProvider(mp)
    \/ \E mp \in Providers \cup {None} : RemoveProvider(mp)
    \/ \E f \in Files : onPlayBackStarted(f)
    \/ \E isVideo \in BOOLEAN, tag \in Tags : onAVStarted(isVideo, tag)
    \/ Process
    \/ onPlayBackSeek
    \/ onPlayBackSeekChapter
    \/ onPlayBackPaused
    \/ onPlayBackResumed
    \/ onPlayBackStopped
    \/ onPlayBackEnded
    \/ onPlayBackError
    \/ Tick

\* The Player driven by the host
Spec == Init /\ [][Next]_vars

ServerNext ==
    \/ \E p \in Providers : SrvNew(p)
    \/ \E outcome \in AuthOutcomes : SrvAuthenticate(outcome)
    \/ \E url \in ApiUrls(server), outcome \in AuthOutcomes, resp \in TransportResults :
          \/ SrvApiGet(url, outcome, resp)
          \/ SrvApiDelete(url, outcome, resp)
          \/ \E data \in ApiBodies : SrvApiPost(url, data, outcome, resp)
    \/ \E endpoint \in Endpoints : SrvBuildUserUrl(endpoint)
    \/ \E op \in UserItemBuilders, id \in ItemIds : SrvBuildUserItemUrl(op, id)
    \/ \E mediaType \in MediaTypes, id \in ItemIds, container \in Containers :
          SrvBuildPlayableItemUrl(mediaType, id, container)

\* The Player together with its providers' servers, which keep the sessions
\* they are told of
SessionInit == InitRecording(TRUE)

SessionSpec == SessionInit /\ [][Next]_vars

\* A Server object driven by its callers
ServerSpec == Init /\ [][ServerNext]_vars

\* Server.Info on its own: the static GetServerInfo needs no Server object
InfoNext == \E response \in Responses : SrvGetServerInfo(response)

InfoSpec == Init /\ [][InfoNext]_vars

RegistryNext ==
    \/ \E mp \in ProviderObjects \cup {None} : AddProvider(mp)
    \/ \E mp \in ProviderObjects \cup {None} : RemoveProvider(mp)

\* The provider registry driven by whatever provider objects the host has
RegistrySpec == Init /\ [][RegistryNext]_vars

----------------------------------------------------------------------------
\* What the last callback did, read from its record

StopEvents == {"onPlayBackStopped", "onPlayBackEnded", "onPlayBackError"}
ProgressEvents == {"onPlayBackSeek", "onPlayBackSeekChapter", "Process"}

\* The requests that reached Request.PostAsJson, in order
Posts == [i \in {j \in 1..Len(remote) : remote[j].transport # << >>}
            |-> remote[i].transport[1]]

\* The number of POSTs the last callback sent to Sessions/Playing
PlayingPostsSent ==
    Cardinality({i \in DOMAIN Posts :
        /\ Posts[i].method = "POST"
        /\ Posts[i].url = BuildSessionsPlayingUrl(NewServer(remote[i].provider))})

\* The EventName of a payload, None when it has none
EventNameOf(data) ==
    IF "EventName" \in DOMAIN data THEN data.EventName ELSE None

\* The last callback issued exactly one report of the given kind
IssuedOne(kind) == Len(remote) = 1 /\ remote[1].kind = kind

\* A call reaches the server exactly when authentication succeeded
DeliveredIffAuthenticated ==
    \A i \in 1..Len(remote) : (remote[i].transport # << >>) <=> remote[i].authenticated

\* The match preconditions of player.py:100-130 held for the last onAVStarted
StartMatches ==
    /\ Truthy(file)
    /\ args.isVideo
    /\ Truthy(args.tag)
    /\ FirstMatch(providers, args.tag).found

SessionUnset ==
    /\ item = NoItem
    /\ itemId = None
    /\ mediaProvider = None
    /\ playSessionId = NoSession

----------------------------------------------------------------------------
\* C1 (as stated): every onAVStarted whose item matches an imported item of a
\* registered provider sends exactly one POST to Sessions/Playing.
C1_ExactlyOnePlayingPost ==
    (lastEvent = "onAVStarted" /\ StartMatches) => PlayingPostsSent = 1

\* C1 (amended): every onAVStarted whose item matches makes exactly one ApiPost
\* call, to the Sessions/Playing URL of the matched provider; exactly one POST
\* is sent when authentication succeeds and none when it fails.
C1_OnePlayingCallSentIffAuthenticated ==
    (lastEvent = "onAVStarted" /\ StartMatches) =>
        /\ IssuedOne("playing")
        /\ remote[1].provider = FirstMatch(providers, args.tag).mediaProvider
        /\ remote[1].url = BuildSessionsPlayingUrl(NewServer(remote[1].provider))
        /\ PlayingPostsSent = (IF remote[1].authenticated THEN 1 ELSE 0)

C1_Witness ==
    /\ lastEvent = "onAVStarted"
    /\ StartMatches
    /\ PlayingPostsSent = 1
    /\ playSessionId = remote[1].data.PlaySessionId

\* C2: while no item is matched, onPlayBackSeek, onPlayBackSeekChapter and
\* Process make no remote call: no Server is constructed, nothing is posted.
C2_NoItemNoRemoteCall ==
    (lastEvent \in ProgressEvents /\ ~ItemTruthy(item)) => remote = << >>

\* Process after a stop, with the interval elapsed: the throttle lets it pass
C2_Witness ==
    /\ lastEvent = "Process"
    /\ ~ItemTruthy(item)
    /\ NumTruthy(prevReport)
    /\ now - prevReport >= progressInterval
    /\ remote = << >>

\* C3 (as stated): Process issues a time-update report exactly when the time
\* since the last report is at least the interval, and then refreshes the
\* timestamp.
C3_ProcessEmitsIffDue ==
    (lastEvent = "Process" /\ NumTruthy(prevReport)) =>
        /\ IssuedOne("progress") <=> (now - prevReport >= progressInterval)
        /\ IssuedOne("progress") => lastProgressReport = now

\* C3 (amended): while an item is matched, Process issues a time-update report
\* exactly when the time since the last report is at least the interval, the
\* report reaches the server when authentication succeeds, and the timestamp
\* becomes the current time; otherwise, and whenever no item is matched,
\* Process issues nothing and leaves the timestamp alone.
C3_ProcessEmitsIffDueAndMatched ==
    lastEvent = "Process" =>
        /\ IssuedOne("progress") <=>
              /\ ItemTruthy(item)
              /\ NumTruthy(prevReport)
              /\ now - prevReport >= progressInterval
        /\ IssuedOne("progress") =>
              /\ EventNameOf(remote[1].data) = PLAYING_PROGRESS_EVENT_TIME_UPDATE
              /\ lastProgressReport = now
        /\ ~IssuedOne("progress") => remote = << >> /\ lastProgressReport = prevReport
        /\ DeliveredIffAuthenticated

\* the boundary: exactly the interval has elapsed
C3_Witness ==
    /\ lastEvent = "Process"
    /\ IssuedOne("progress")
    /\ now - prevReport = progressInterval
    /\ lastProgressReport = now

\* C4 (as stated): onPlayBackPaused sets paused, onPlayBackResumed clears it,
\* and each always issues a progress report tagged Pause / Unpause.
C4_PauseResumeAlwaysReport ==
    /\ lastEvent = "onPlayBackPaused" =>
          /\ paused
          /\ IssuedOne("progress")
          /\ EventNameOf(remote[1].data) = PLAYING_PROGRESS_EVENT_PAUSE
    /\ lastEvent = "onPlayBackResumed" =>
          /\ ~paused
          /\ IssuedOne("progress")
          /\ EventNameOf(remote[1].data) = PLAYING_PROGRESS_EVENT_UNPAUSE

\* C4 (amended): onPlayBackPaused sets paused and onPlayBackResumed clears it
\* in every state; while an item is matched each issues one progress report
\* tagged Pause / Unpause with the new paused flag, whatever time has elapsed
\* since the last report, and it reaches the server when authentication
\* succeeds; while no item is matched they issue nothing.
C4_PauseResumeReportWhenMatched ==
    /\ lastEvent = "onPlayBackPaused" =>
          /\ paused
          /\ ItemTruthy(item) =>
                /\ IssuedOne("progress")
                /\ EventNameOf(remote[1].data) = PLAYING_PROGRESS_EVENT_PAUSE
                /\ remote[1].data.IsPaused
                /\ lastProgressReport = now
          /\ ~ItemTruthy(item) => remote = << >>
    /\ lastEvent = "onPlayBackResumed" =>
          /\ ~paused
          /\ ItemTruthy(item) =>
                /\ IssuedOne("progress")
                /\ EventNameOf(remote[1].data) = PLAYING_PROGRESS_EVENT_UNPAUSE
                /\ ~remote[1].data.IsPaused
                /\ lastProgressReport = now
          /\ ~ItemTruthy(item) => remote = << >>
    /\ lastEvent \in {"onPlayBackPaused", "onPlayBackResumed"} =>
          DeliveredIffAuthenticated

\* a pause reported although the interval has not elapsed
C4_Witness ==
    /\ lastEvent = "onPlayBackPaused"
    /\ IssuedOne("progress")
    /\ remote[1].transport # << >>
    /\ NumTruthy(prevReport)
    /\ now - prevReport < progressInterval

\* C5: onPlayBackStopped / onPlayBackEnded report Failed = false and
\* onPlayBackError reports Failed = true, and after each of them the session
\* state is reset (file, item, item id, provider, session id unset, not paused).
C5_StopAlwaysResets ==
    lastEvent \in StopEvents =>
        /\ \A i \in 1..Len(remote) :
              /\ remote[i].kind = "stopped"
              /\ remote[i].data.Failed = (lastEvent = "onPlayBackError")
        /\ file = None
        /\ SessionUnset
        /\ ~paused

\* C6: item, itemId, mediaProvider and playSessionId are all set or all unset.
C6_SessionFieldsAllOrNothing ==
    \/ /\ ItemTruthy(item)
       /\ Truthy(itemId)
       /\ Truthy(mediaProvider)
       /\ NumTruthy(playSessionId)
    \/ /\ ~ItemTruthy(item)
       /\ ~Truthy(itemId)
       /\ ~Truthy(mediaProvider)
       /\ ~NumTruthy(playSessionId)

\* C7: an onAVStarted whose match preconditions fail, or for which no
\* registered provider has a matching imported item, makes no remote call.
C7_NoMatchNoRemoteCall ==
    (lastEvent = "onAVStarted" /\ ~StartMatches) => remote = << >>

\* C8: when a remote call of the Player fails, the session state after the
\* callback is what it was when the call was attempted: the fields the payload
\* was built from, and the last-report timestamp.
C8_FailedCallKeepsState ==
    \A i \in 1..Len(remote) :
        ApiFailed(remote[i].ret) =>
            /\ lastProgressReport = prevReport
            /\ ItemTruthy(item)
            /\ itemId = remote[i].data.ItemId
            /\ playSessionId = remote[i].data.PlaySessionId
            /\ mediaProvider = remote[i].provider

\* C9: ApiGet, ApiPost and ApiDelete authenticate first; when that fails they
\* return False and Request is not invoked; Request is invoked only after a
\* successful authentication, once, with the headers built from the access
\* token, the user id and the device id.
C9_ApiAuthenticatesFirst ==
    srvLast.op \in {"ApiGet", "ApiPost", "ApiDelete"} =>
        /\ srvLast.authRet = (srvLast.wasAuthenticated \/ srvLast.outcome # NoAuth)
        /\ ~srvLast.authRet => srvLast.ret = False /\ srvLast.transport = << >>
        /\ srvLast.authRet =>
              /\ Len(srvLast.transport) = 1
              /\ srvLast.transport[1].method =
                    (IF srvLast.op = "ApiGet" THEN "GET"
                     ELSE IF srvLast.op = "ApiPost" THEN "POST" ELSE "DELETE")
              /\ srvLast.transport[1].url = srvLast.url
              /\ srvLast.transport[1].headers =
                    [authToken |-> AccessToken(server), userId |-> UserId(server),
                     deviceId |-> server.devideId]
              /\ Truthy(AccessToken(server))

C9_Witness ==
    /\ srvLast.op = "ApiDelete"
    /\ ~srvLast.authRet
    /\ srvLast.ret = False
    /\ srvLast.transport = << >>

\* C10: Authenticate() returns true exactly when the authenticator is already
\* authenticated or a fresh attempt succeeds, and makes no fresh attempt when
\* the authenticator is already authenticated.
C10_AuthenticateShortCircuits ==
    srvLast.op = "Authenticate" =>
        /\ srvLast.authRet = (srvLast.wasAuthenticated \/ srvLast.outcome # NoAuth)
        /\ srvLast.attempted = ~srvLast.wasAuthenticated

\* already authenticated, and a fresh attempt would have failed
C10_Witness ==
    /\ srvLast.op = "Authenticate"
    /\ srvLast.wasAuthenticated
    /\ srvLast.outcome = NoAuth
    /\ srvLast.authRet

\* C11: a matched onAVStarted binds the session to the first provider, in
\* registry order, that has an imported item with the playing item's id, using
\* the first such item; a warning is logged exactly when that provider has more
\* than one; the providers after it are not fetched.
FirstMatchingIndex(provs, id) ==
    CHOOSE k \in 1..Len(provs) :
        /\ MatchingItems(provs[k], id) # << >>
        /\ \A j \in 1..(k - 1) : MatchingItems(provs[j], id) = << >>

C11_FirstProviderWins ==
    (lastEvent = "onAVStarted" /\ StartMatches) =>
        LET k == FirstMatchingIndex(providers, args.tag)
            matching == MatchingItems(providers[k], args.tag)
        IN  /\ mediaProvider = providers[k]
            /\ item = matching[1]
            /\ matchLog.warned = (Len(matching) > 1)
            /\ matchLog.consulted = SubSeq(providers, 1, k)
            /\ IssuedOne("playing")
            /\ remote[1].provider = providers[k]

\* both providers import the id, the first one twice
C11_Witness ==
    /\ lastEvent = "onAVStarted"
    /\ providers = <<"p1", "p2">>
    /\ args.tag = "a"
    /\ StartMatches
    /\ mediaProvider = "p1"
    /\ item = ImportedItems("p1")[2]
    /\ matchLog.warned
    /\ matchLog.consulted = <<"p1">>

\* C12: AddProvider rejects a provider whose identifier is null or empty,
\* RemoveProvider fails for an identifier that is not registered, and no
\* registry key is ever null or empty.
C12_RegistryRejectsEmptyIdentifier ==
    /\ \A i \in 1..Len(providers) : Truthy(Identifier(providers[i]))
    /\ (lastEvent = "AddProvider" /\ ~Truthy(Identifier(args.mp))) => raised # ""
    /\ (lastEvent = "RemoveProvider" /\ raised = "KeyError")
          => ~DictHas(providers, Identifier(args.mp))

\* A required field of the last response is missing or malformed
RequiredFieldBad(response) ==
    \/ ~Truthy(response.Id) \/ response.Id = Absent
    \/ response.ServerName = Absent
    \/ response.Version = AbsentVersion
    \/ ~SemanticVersionValid(FirstThree(response.Version))

\* C13: fromPublicInfo returns None, and raises nothing, whenever id, server
\* name or version is missing or malformed, an empty id included; an Info has
\* a non-empty id.
C13_BadResponseGivesNone ==
    infoLast.done =>
        /\ RequiredFieldBad(infoLast.response) =>
              infoLast.raised = "" /\ infoLast.info = NoInfo
        /\ infoLast.info # NoInfo => Truthy(infoLast.info.id)

\* C14: every Info is exactly one of Emby / Jellyfin / unknown: Emby without
\* a ProductName or with "Emby Server", Jellyfin with "Jellyfin Server", and
\* unknown with any other ProductName present in the response.
C14_ProductClassification ==
    (infoLast.done /\ infoLast.info # NoInfo) =>
        LET info == infoLast.info
            productName == infoLast.response.ProductName
        IN  /\ Cardinality({k \in {"emby", "jellyfin", "unknown"} :
                    \/ k = "emby" /\ isEmbyServer(info)
                    \/ k = "jellyfin" /\ isJellyfinServer(info)
                    \/ k = "unknown" /\ isUnknown(info)}) = 1
            /\ productName = Absent => isEmbyServer(info)
            /\ productName = EMBY_SERVER => isEmbyServer(info)
            /\ productName = JELLYFIN_SERVER => isJellyfinServer(info)
            /\ productName \notin {Absent, EMBY_SERVER, JELLYFIN_SERVER}
                  => isUnknown(info)

\* The last len segments of a URL
UrlEnd(url, len) == SubSeq(url, Len(url) - len + 1, Len(url))

\* C15: BuildUserUrl, and every builder of a user's item URL through it,
\* called with a non-empty argument on an unauthenticated Server raises the
\* illegal-state error, returns no URL and leaves the Server unauthenticated
\* (no authentication is attempted); BuildUserUrl with an empty endpoint raises
\* the invalid-argument error whether authenticated or not.
C15_UserUrlNeedsAuthentication ==
    (urlLast.op \in UserItemBuilders \cup {"BuildUserUrl"}) =>
        /\ (~urlLast.wasAuthenticated /\ Truthy(urlLast.arg)) =>
              /\ urlLast.raised = "RuntimeError"
              /\ urlLast.url = << >>
              /\ ~IsAuthenticated(urlLast.server.authenticator)
              /\ urlLast.server.authenticator = NewAuthenticator
        /\ (urlLast.op = "BuildUserUrl" /\ ~Truthy(urlLast.arg)) =>
              urlLast.raised = "ValueError" /\ urlLast.url = << >>
        /\ (urlLast.wasAuthenticated /\ Truthy(urlLast.arg)) =>
              urlLast.raised = "" /\ urlLast.url # << >>

C15_Witness ==
    /\ urlLast.op = "BuildUserItemUserDataUrl" /\ urlLast.arg = "abc123"
    /\ ~urlLast.wasAuthenticated /\ urlLast.raised = "RuntimeError"
    /\ srvLast.op = "Authenticate" /\ ~srvLast.authRet

\* C16: BuildPlayableItemUrl maps Video to Videos and Audio to Audio, raises
\* the invalid-argument error for any other media type and for an empty item
\* id, and uses only the first of several comma-separated containers as the
\* extension: ('Video', 'abc123', 'mkv,mp4') ends in
\* /Videos/abc123/stream.mkv?static=true.
C16_PlayableItemUrl ==
    urlLast.op = "BuildPlayableItemUrl" =>
        LET first == Str(Split(urlLast.container, ",")[1])
            stream == IF urlLast.container = << >> THEN "stream?static=true"
                      ELSE "stream." \o first \o "?static=true"
        IN  /\ (~Truthy(urlLast.arg) \/ urlLast.mediaType \notin {"Video", "Audio"})
                  <=> urlLast.raised = "ValueError"
            /\ urlLast.raised \in {"", "ValueError"}
            /\ urlLast.raised = "" =>
                  /\ urlLast.url = urlLast.server.url \o UrlEnd(urlLast.url, 3)
                  /\ UrlEnd(urlLast.url, 3) =
                        <<IF urlLast.mediaType = "Video" THEN "Videos" ELSE "Audio",
                          urlLast.arg, stream>>
            /\ (/\ urlLast.mediaType = "Video" /\ urlLast.arg = "abc123"
                /\ urlLast.container = <<"m", "k", "v", ",", "m", "p", "4">>)
                  => UrlEnd(urlLast.url, 3) =
                        <<"Videos", "abc123", "stream.mkv?static=true">>

C16_Witness ==
    /\ urlLast.op = "BuildPlayableItemUrl" /\ urlLast.raised = ""
    /\ urlLast.mediaType = "Video" /\ urlLast.arg = "abc123"
    /\ urlLast.container = <<"m", "k", "v", ",", "m", "p", "4">>
    /\ UrlEnd(urlLast.url, 3) = <<"Videos", "abc123", "stream.mkv?static=true">>

\* C17: every start that matched an item and issued its "playing" report
\* assigned a session id no earlier start had, and reported that id.
C17_FreshSessionIdPerStart ==
    /\ \A i, j \in 1..Len(sessionIds) : i # j => sessionIds[i] # sessionIds[j]
    /\ (lastEvent = "onAVStarted" /\ IssuedOne("playing")) =>
          /\ playSessionId = sessionIds[Len(sessionIds)]
          /\ remote[1].data.PlaySessionId = playSessionId
          /\ playSessionId # NoSession

C17_Witness ==
    /\ lastEvent = "onAVStarted" /\ StartMatches /\ IssuedOne("playing")
    /\ Len(sessionIds) = 2 /\ playSessionId = sessionIds[2]

\* C18: every progress or stopped POST that is sent names, by ItemId and
\* PlaySessionId, a session that a "playing" POST sent earlier to the same
\* provider opened and no "stopped" POST has closed.
C18_ReportsNameAnOpenSession ==
    [][\A i \in 1..Len(remote') :
          (remote'[i].authenticated /\ remote'[i].kind \in {"progress", "stopped"})
              => SessionOf(remote'[i]) \in serverSessions.open]_vars

\* C19: a session opened by a "playing" POST stays the Player's current
\* session until its "stopped" POST is sent: the Player neither discards the
\* session id nor starts another one while the session is open.
C19_OpenSessionIsCurrent ==
    \A e \in serverSessions.open :
        e.PlaySessionId = playSessionId /\ e.provider = mediaProvider

\* C20: every remote call of a callback goes to a provider that is in the
\* registry when the call is made; none goes to a removed provider.
C20_CallsTargetRegisteredProviders ==
    \A i \in 1..Len(remote) : DictHas(providers, Identifier(remote[i].provider))

====
